---- MODULE Spec2Model ----
\* Bearer-token resource server of docs/samples/testcontainers-python/api.py:
\* HTTPBearer -> verify_token (PyJWKClient + jwt.decode) -> require_scope -> handler,
\* against an authorization server whose JWKS endpoint may be down or rotate keys.
EXTENDS Integers, Sequences, FiniteSets, TLC

VARIABLES up, published, now, cache, era, pool, slots, track,
          pc, req, refresh, resp, nfetch, first, view, verified, out, seen

vars == <<up, published, now, cache, era, pool, slots, track,
          pc, req, refresh, resp, nfetch, first, view, verified, out, seen>>

\* ---------------------------------------------------------------- bounds
\* Wall-clock instants are 0..MaxTime; a token's exp / nbf, when present, is TokenInstant.
MaxTime == 1
TokenInstant == 1

\* ---------------------------------------------------------------- constants
HTTP_200_OK == 200
HTTP_201_CREATED == 201
HTTP_401_UNAUTHORIZED == 401
HTTP_403_FORBIDDEN == 403
HTTP_500_INTERNAL_SERVER_ERROR == 500

\* Request slots (worker threads); a specification enables a subset of them.
Slots == {1, 2}

\* Key identifiers the authorization server may publish in its JWKS document.
Kids == {"k1", "k2"}

\* ---------------------------------------------------------------- strings
\* A Python str is a sequence of one-character strings.
read == <<"r", "e", "a", "d">>
write == <<"w", "r", "i", "t", "e">>
Read == <<"R", "e", "a", "d">>
Write == <<"W", "r", "i", "t", "e">>
SP == <<" ">>
TAB == <<"\t">>

\* str.isspace for the characters used here
IsSpace(c) == c \in {" ", "\t"}

\* str.split() with no separator: runs of whitespace separate the words, and
\* leading / trailing whitespace yields no empty word.
RECURSIVE SplitFrom(_, _, _, _)
SplitFrom(s, i, cur, acc) ==
    IF i > Len(s)
    THEN IF cur = <<>> THEN acc ELSE Append(acc, cur)
    ELSE IF IsSpace(s[i])
         THEN SplitFrom(s, i + 1, <<>>, IF cur = <<>> THEN acc ELSE Append(acc, cur))
         ELSE SplitFrom(s, i + 1, Append(cur, s[i]), acc)

Split(s) == SplitFrom(s, 1, <<>>, <<>>)

\* `x in list`
InList(x, l) == \E i \in 1..Len(l) : l[i] = x

\* ---------------------------------------------------------------- tokens
\* The value of the payload's "scope" member: absent, JSON null, a JSON array
\* (non-empty), or a string.
ScopeAbsent == [ty |-> "absent", v |-> <<>>]
ScopeNull == [ty |-> "null", v |-> <<>>]
ScopeList == [ty |-> "list", v |-> read]
ScopeStr(s) == [ty |-> "str", v |-> s]

ScopeStrings ==
    { <<>>, read, write, read \o SP \o write, Read \o SP \o Write,
      read \o write, SP \o read \o SP \o SP \o write \o SP, write \o TAB \o read }

ScopeValues == {ScopeAbsent, ScopeNull, ScopeList} \cup { ScopeStr(s) : s \in ScopeStrings }

\* A compact JWT as presented on the wire.
\*   wf   the string is a three-segment compact JWT with a JSON header and payload
\*   alg  the header's alg
\*   kid  the header's kid
\*   sig  "good": an RS256 signature made with the private key of kid;
\*        "hmac": an HS256 MAC made with kid's public key bytes as the secret;
\*        "bad":  anything else
\*   nbf, exp  the payload's claims, {} when absent
Token(wf, alg, kid, sig, nbf, exp, scope) ==
    [wf |-> wf, alg |-> alg, kid |-> kid, sig |-> sig, nbf |-> nbf, exp |-> exp,
     scope |-> scope]

MalformedToken == Token(FALSE, "RS256", "k1", "bad", {}, {}, ScopeAbsent)

TimeClaims == { <<{}, {}>>, <<{}, {TokenInstant}>>, <<{TokenInstant}, {}>> }

\* Tokens that differ in what verification looks at.
ValidityTokens ==
    {MalformedToken}
    \cup { Token(TRUE, "RS256", "k1", s, t[1], t[2], ScopeStr(read \o SP \o write)) :
             s \in {"good", "bad"}, t \in TimeClaims }
    \cup { Token(TRUE, "RS256", "k2", s, {}, {}, ScopeStr(read \o SP \o write)) :
             s \in {"good", "bad"} }
    \cup { Token(TRUE, "HS256", k, s, {}, {}, ScopeStr(read \o SP \o write)) :
             k \in Kids, s \in {"hmac", "bad"} }

\* Tokens that verify and differ in the scope claim.
ScopeTokens == { Token(TRUE, "RS256", "k1", "good", {}, {}, sc) : sc \in ScopeValues }

Tokens == ValidityTokens \cup ScopeTokens

NoToken == Token(FALSE, "none", "none", "none", {}, {}, ScopeAbsent)

\* Mutant of Payload: the returned mapping carries the instant of verification.
PayloadStamped(t) == [sub |-> "client", scope |-> t.scope, nbf |-> {now}, exp |-> t.exp]

\* The decoded payload (the ClaimSet).
Payload(t) == [sub |-> "client", scope |-> t.scope, nbf |-> t.nbf, exp |-> t.exp]

NoClaims == [sub |-> "none", scope |-> ScopeAbsent, nbf |-> {}, exp |-> {}]

\* ---------------------------------------------------------------- routes
Endpoints == {"GET /api/protected", "GET /api/data", "POST /api/data", "GET /api/userinfo"}

\* The scope a route's dependency requires: <<>> when the route depends on verify_token alone.
RequiredScope(ep) ==
    CASE ep = "GET /api/data" -> read
      [] ep = "POST /api/data" -> write
      [] OTHER -> <<>>

\* Mutant of HasScope: the POST route depends on verify_token alone.
HasScopeGetOnly(ep) == ep = "GET /api/data"

HasScope(ep) == ep \in {"GET /api/data", "POST /api/data"}

SuccessStatus(ep) == IF ep = "POST /api/data" THEN HTTP_201_CREATED ELSE HTTP_200_OK

\* The Authorization header: absent, another scheme, "Bearer" with nothing after it,
\* or "Bearer <token>".
Request(ep, hdr, tok) == [ep |-> ep, hdr |-> hdr, tok |-> tok]

NoRequest == Request("none", "none", NoToken)

AllRequests ==
    { Request(ep, h, NoToken) : ep \in {"GET /api/protected", "GET /api/data"},
                                h \in {"absent", "basic", "bearer-empty"} }
    \cup { Request("GET /api/protected", "bearer", t) : t \in ValidityTokens }
    \cup { Request(ep, "bearer", t) : ep \in {"GET /api/data", "POST /api/data"},
                                      t \in ScopeTokens }
    \cup { Request(ep, "bearer", Token(TRUE, "RS256", "k1", "good", {}, {}, sc)) :
             ep \in {"GET /api/protected", "GET /api/userinfo"},
             sc \in {ScopeAbsent, ScopeList, ScopeStr(write)} }

\* ---------------------------------------------------------------- responses
\* What the request ends with: the HTTP status, whether the response carries
\* WWW-Authenticate: Bearer, the detail (the exception raised, or the scope named),
\* and the claims handed to the handler.
Response(status, challenge, detail, exc, scope, claims) ==
    [status |-> status, challenge |-> challenge, detail |-> detail, exc |-> exc,
     scope |-> scope, claims |-> claims]

NoResponse == Response(0, FALSE, "none", "none", <<>>, NoClaims)

\* HTTPBearer(): the Authorization header must be present, with a scheme and
\* credentials, and the scheme must be bearer; otherwise it raises HTTPException(403).
HTTPBearer(hdr) ==
    CASE hdr \in {"absent", "bearer-empty"} ->
             [ok |-> FALSE,
              response |-> Response(HTTP_403_FORBIDDEN, FALSE, "Not authenticated", "none", <<>>,
                                    NoClaims)]
      [] hdr = "basic" ->
             [ok |-> FALSE,
              response |-> Response(HTTP_403_FORBIDDEN, FALSE, "Invalid authentication credentials",
                                    "none", <<>>, NoClaims)]
      [] OTHER -> [ok |-> TRUE, response |-> NoResponse]

\* ---------------------------------------------------------------- PyJWT
\* The exceptions verification raises, by class.
InvalidTokenErrors ==
    {"DecodeError", "InvalidAlgorithmError", "InvalidSignatureError",
     "ExpiredSignatureError", "ImmatureSignatureError"}

OtherErrors == {"PyJWKClientConnectionError", "PyJWKSetError", "PyJWKClientError"}

\* The design's name for each failure.
Classify(exc) ==
    CASE exc = "DecodeError" -> "Malformed"
      [] exc = "InvalidAlgorithmError" -> "UnsupportedAlgorithm"
      [] exc = "InvalidSignatureError" -> "BadSignature"
      [] exc = "ExpiredSignatureError" -> "Expired"
      [] exc = "ImmatureSignatureError" -> "NotYetValid"
      [] exc = "PyJWKClientError" -> "UnknownKey"
      [] exc \in {"PyJWKClientConnectionError", "PyJWKSetError"} -> "KeySourceUnavailable"
      [] OTHER -> "none"

\* Mutant of HandleException: the catch-all except clause is missing.
HandleInvalidTokenOnly(exc) ==
    IF exc \in InvalidTokenErrors
    THEN Response(HTTP_401_UNAUTHORIZED, TRUE, "Invalid token", exc, <<>>, NoClaims)
    ELSE Response(HTTP_500_INTERNAL_SERVER_ERROR, FALSE, "Internal Server Error", exc, <<>>,
                  NoClaims)

\* The two except clauses of verify_token.
HandleException(exc) ==
    IF exc \in InvalidTokenErrors
    THEN Response(HTTP_401_UNAUTHORIZED, TRUE, "Invalid token", exc, <<>>, NoClaims)
    ELSE Response(HTTP_401_UNAUTHORIZED, TRUE, "Could not validate credentials", exc, <<>>,
                  NoClaims)

\* The JWK set cache of PyJWKClient: empty, or the last fetched document with its
\* age (fresh until the cache lifespan has elapsed).
NoCache == [set |-> FALSE, data |-> {}, fresh |-> FALSE]
Cached(data) == [set |-> TRUE, data |-> data, fresh |-> TRUE]

\* JWKSetCache.get: the cached document unless there is none or it has expired.
CacheGet(c) == IF c.set /\ c.fresh THEN [hit |-> TRUE, data |-> c.data]
               ELSE [hit |-> FALSE, data |-> {}]

\* The result of urlopen + json.load in fetch_data.
Fetched(ok, data) == [ok |-> ok, data |-> data]
NoFetch == Fetched(FALSE, {})

\* Mutant of CachePut: a failed fetch is cached as an empty document.
CachePutNegative(c, r) == IF r.ok THEN Cached(r.data) ELSE Cached({})

\* JWKSetCache.put, called in fetch_data's finally clause with the fetched document,
\* or with None when the fetch raised.
CachePut(c, r) == IF r.ok THEN Cached(r.data) ELSE NoCache

\* RS256 verification of the token's signature with the public key named `key`.
RsaVerify(t, key) == t.sig = "good" /\ key = t.kid

\* HS256 verification with the public key bytes of `key` as the secret.
HmacVerify(t, key) == t.sig = "hmac" /\ key = t.kid

\* The signature check of the algorithm the header names.
Verify(t, key) ==
    CASE t.alg = "RS256" -> RsaVerify(t, key)
      [] t.alg = "HS256" -> HmacVerify(t, key)
      [] OTHER -> FALSE

\* Mutant of Algorithms: HS256 is allowed too.
AlgorithmsWithHmac == {"RS256", "HS256"}

\* The list passed as algorithms= to jwt.decode.
Algorithms == {"RS256"}

\* Mutant of JwtDecode: exp is not verified.
JwtDecodeNoExp(t, key, n) ==
    CASE ~t.wf -> [ok |-> FALSE, exc |-> "DecodeError"]
      [] t.wf /\ t.alg \notin Algorithms -> [ok |-> FALSE, exc |-> "InvalidAlgorithmError"]
      [] t.wf /\ t.alg \in Algorithms /\ ~Verify(t, key) ->
             [ok |-> FALSE, exc |-> "InvalidSignatureError"]
      [] OTHER ->
             IF \E x \in t.nbf : x > n THEN [ok |-> FALSE, exc |-> "ImmatureSignatureError"]
             ELSE [ok |-> TRUE, exc |-> "none"]

\* jwt.decode(token, key, algorithms=["RS256"], options={"verify_aud": False}) at
\* time n: the header's alg against the allowed list, then the signature, then nbf,
\* then exp.
JwtDecode(t, key, n) ==
    CASE ~t.wf -> [ok |-> FALSE, exc |-> "DecodeError"]
      [] t.wf /\ t.alg \notin Algorithms -> [ok |-> FALSE, exc |-> "InvalidAlgorithmError"]
      [] t.wf /\ t.alg \in Algorithms /\ ~Verify(t, key) ->
             [ok |-> FALSE, exc |-> "InvalidSignatureError"]
      [] OTHER ->
             IF \E x \in t.nbf : x > n THEN [ok |-> FALSE, exc |-> "ImmatureSignatureError"]
             ELSE IF \E x \in t.exp : x <= n THEN [ok |-> FALSE, exc |-> "ExpiredSignatureError"]
             ELSE [ok |-> TRUE, exc |-> "none"]

\* Mutant of Lookup: every miss re-fetches.
LookupRetry(data, kid, refreshed) ==
    CASE data = {} -> "PyJWKSetError"
      [] data # {} /\ kid \in data -> "found"
      [] OTHER -> "refresh"

\* What PyJWKClient.get_signing_key does with a key set it has in hand:
\* an empty set raises, a set holding kid yields the key, otherwise the set is
\* re-fetched once (refresh=True) and a second miss raises.
Lookup(data, kid, refreshed) ==
    CASE data = {} -> "PyJWKSetError"
      [] data # {} /\ kid \in data -> "found"
      [] data # {} /\ kid \notin data /\ ~refreshed -> "refresh"
      [] OTHER -> "PyJWKClientError"

\* `x in str`: x is a substring of str.
InStr(x, str) == \E i \in 1..(Len(str) - Len(x) + 1) : SubSeq(str, i, i + Len(x) - 1) = x

\* Mutant of ScopeChecker: the required scope is looked for in the unsplit string.
ScopeCheckerSubstring(required_scope, token_data) ==
    LET token_scope == token_data.scope
        falsy == token_scope.ty \in {"absent", "null"} \/ (token_scope.ty = "str" /\ token_scope.v = <<>>)
    IN  IF falsy THEN "denied"
        ELSE IF token_scope.ty # "str" THEN "AttributeError"
        ELSE IF InStr(required_scope, token_scope.v) THEN "granted" ELSE "denied"

\* scope_checker's decision on the decoded claims.
ScopeChecker(required_scope, token_data) ==
    LET token_scope == token_data.scope
        falsy == token_scope.ty \in {"absent", "null"} \/ (token_scope.ty = "str" /\ token_scope.v = <<>>)
    IN  IF falsy THEN "denied"
        ELSE IF token_scope.ty # "str" THEN "AttributeError"
        ELSE IF InList(required_scope, Split(token_scope.v)) THEN "granted" ELSE "denied"

\* ---------------------------------------------------------------- state
\* up, published   the authorization server: its JWKS endpoint answers, with these kids
\* now             the wall clock jwt.decode reads
\* cache           jwks_client's JWK set cache (process-wide)
\* era             the JWKS endpoint's history since the process started: "up" (it was
\*                 reachable before any fetch failed), "never-up", "rejected" (never up,
\*                 and a request was rejected because its fetch failed), "recovered"
\*                 (up again after that)
\* pool, slots     the requests clients send, and the worker slots in use
\* pc, req         per slot: the request being served and where its pipeline stands
\* refresh         per slot: the refresh argument of the get_jwk_set call in progress
\* resp            per slot: the JWKS document the last urlopen of this request returned
\* nfetch          per slot: urlopen calls made for this request
\* first           per slot: how the first get_jwk_set of this request was served
\* view            per slot: what that cache read saw of another request's refresh:
\*                 "alone" (no other request had started a re-fetch), else "complete"
\*                 (a cached key set was there) or "empty" (the cache held nothing)
\* out             per slot: the response
\* track, seen     when track is set: the (token, claims) pairs verify_token has returned
Verification(tok, claims) == [tok |-> tok, claims |-> claims]

\* The record of verifications after verify_token returned in slot s.
Record(s) == IF track THEN seen \cup {Verification(req[s].tok, out[s].claims)} ELSE seen

TypeOK ==
    /\ up \in BOOLEAN /\ era \in {"up", "never-up", "rejected", "recovered"}
    /\ published \in SUBSET Kids
    /\ now \in 0..MaxTime
    /\ cache \in [set : BOOLEAN, data : SUBSET Kids, fresh : BOOLEAN]
    /\ pool \subseteq AllRequests /\ slots \subseteq Slots
    /\ pc \in [Slots -> {"idle", "Start", "TokenExtracted", "fetch", "put", "decode",
                         "Verified", "Authorized", "Admitted", "Rejected", "Error"}]
    /\ \A s \in Slots : req[s] \in pool \cup {NoRequest}
    /\ refresh \in [Slots -> BOOLEAN]
    /\ resp \in [Slots -> [ok : BOOLEAN, data : SUBSET Kids]]
    /\ nfetch \in [Slots -> 0..2]
    /\ first \in [Slots -> {"none", "hit-found", "hit-absent", "hit-empty", "miss"}]
    /\ view \in [Slots -> {"none", "alone", "complete", "empty"}]
    /\ verified \in [Slots -> BOOLEAN]

Init ==
    /\ up \in BOOLEAN
    /\ era = IF up THEN "up" ELSE "never-up"
    /\ published \in SUBSET Kids
    /\ now = 0
    /\ cache = NoCache
    /\ pool = AllRequests
    /\ slots = {1}
    /\ track = FALSE
    /\ pc = [s \in Slots |-> "idle"]
    /\ req = [s \in Slots |-> NoRequest]
    /\ refresh = [s \in Slots |-> FALSE]
    /\ resp = [s \in Slots |-> NoFetch]
    /\ nfetch = [s \in Slots |-> 0]
    /\ first = [s \in Slots |-> "none"]
    /\ view = [s \in Slots |-> "none"]
    /\ verified = [s \in Slots |-> FALSE]
    /\ out = [s \in Slots |-> NoResponse]
    /\ seen = {}

env == <<up, published, now, era>>
config == <<pool, slots, track>>
local == <<refresh, resp, nfetch, first, view, verified>>

\* ---------------------------------------------------------------- environment
Tick ==
    /\ now < MaxTime
    /\ now' = now + 1
    /\ UNCHANGED <<up, published, era, cache, config, pc, req, local, out, seen>>

ServerDown ==
    /\ up
    /\ up' = FALSE
    /\ UNCHANGED <<published, now, era, cache, config, pc, req, local, out, seen>>

ServerUp ==
    /\ ~up
    /\ up' = TRUE
    /\ era' = CASE era = "never-up" -> "up"
                [] era = "rejected" -> "recovered"
                [] OTHER -> era
    /\ UNCHANGED <<published, now, cache, config, pc, req, local, out, seen>>

\* The authorization server rotates its keys.
Rotate ==
    /\ \E K \in SUBSET Kids : K # published /\ published' = K
    /\ UNCHANGED <<up, now, era, cache, config, pc, req, local, out, seen>>

\* The cache lifespan elapses (time.monotonic() passes the cached timestamp + lifespan).
LifespanElapses ==
    /\ cache.set /\ cache.fresh
    /\ cache' = [cache EXCEPT !.fresh = FALSE]
    /\ UNCHANGED <<env, config, pc, req, local, out, seen>>

\* ---------------------------------------------------------------- the pipeline
\* A client sends a request; the framework starts resolving the route's dependencies.
Arrive(s) ==
    /\ s \in slots /\ pc[s] = "idle"
    /\ \E r \in pool : req' = [req EXCEPT ![s] = r]
    /\ pc' = [pc EXCEPT ![s] = "Start"]
    /\ UNCHANGED <<env, cache, config, local, out, seen>>

\* Depends(security): HTTPBearer reads the Authorization header.
Security(s) ==
    /\ pc[s] = "Start"
    /\ LET b == HTTPBearer(req[s].hdr)
       IN  IF b.ok
           THEN pc' = [pc EXCEPT ![s] = "TokenExtracted"] /\ out' = out
           ELSE pc' = [pc EXCEPT ![s] = "Rejected"] /\ out' = [out EXCEPT ![s] = b.response]
    /\ UNCHANGED <<env, cache, config, req, local, seen>>

\* verify_token's except clauses turn exception exc into the response.
Raise(s, exc) ==
    /\ pc' = [pc EXCEPT ![s] = "Rejected"]
    /\ out' = [out EXCEPT ![s] = HandleException(exc)]

\* The step get_signing_key takes with key set `data` in hand.
Resolve(s, data, refreshed) ==
    LET l == Lookup(data, req[s].tok.kid, refreshed)
    IN  CASE l = "found" -> pc' = [pc EXCEPT ![s] = "decode"] /\ out' = out /\ refresh' = refresh
          [] l = "refresh" -> /\ pc' = [pc EXCEPT ![s] = "fetch"] /\ out' = out
                              /\ refresh' = [refresh EXCEPT ![s] = TRUE]
          [] OTHER -> Raise(s, l) /\ refresh' = refresh

\* Another request has started a re-fetch (get_jwk_set(refresh=True)) and has not
\* been answered yet.
Refreshing(s) == \E a \in Slots \ {s} : pc[a] # "idle" /\ refresh[a]

\* What the cache read of slot s sees of such a re-fetch.
Seen(s) ==
    IF ~Refreshing(s) THEN "alone" ELSE IF cache.set THEN "complete" ELSE "empty"

\* get_signing_key_from_jwt: the unverified header is decoded, then
\* get_signing_keys() reads the JWK set cache.
GetSigningKey(s) ==
    /\ pc[s] = "TokenExtracted"
    /\ IF ~req[s].tok.wf
       THEN Raise(s, "DecodeError") /\ UNCHANGED <<refresh, first, view>>
       ELSE LET g == CacheGet(cache)
            IN  /\ view' = [view EXCEPT ![s] = Seen(s)]
                /\ IF g.hit
                   THEN /\ Resolve(s, g.data, FALSE)
                        /\ first' = [first EXCEPT ![s] =
                                       IF g.data = {} THEN "hit-empty"
                                       ELSE IF req[s].tok.kid \in g.data THEN "hit-found"
                                       ELSE "hit-absent"]
                   ELSE /\ pc' = [pc EXCEPT ![s] = "fetch"]
                        /\ first' = [first EXCEPT ![s] = "miss"]
                        /\ UNCHANGED <<out, refresh>>
    /\ UNCHANGED <<env, cache, config, req, resp, nfetch, verified, seen>>

\* fetch_data: urlopen(JWKS_URL) and json.load.
Fetch(s) ==
    /\ pc[s] = "fetch"
    /\ resp' = [resp EXCEPT ![s] = IF up THEN Fetched(TRUE, published) ELSE NoFetch]
    /\ nfetch' = [nfetch EXCEPT ![s] = @ + 1]
    /\ pc' = [pc EXCEPT ![s] = "put"]
    /\ UNCHANGED <<env, cache, config, req, refresh, first, view, verified, out, seen>>

\* fetch_data's finally clause stores the document (or clears the cache), then
\* get_signing_key goes on with the fetched set.
Put(s) ==
    /\ pc[s] = "put"
    /\ cache' = CachePut(cache, resp[s])
    /\ IF resp[s].ok
       THEN Resolve(s, resp[s].data, refresh[s])
       ELSE Raise(s, "PyJWKClientConnectionError") /\ refresh' = refresh
    /\ era' = IF ~resp[s].ok /\ era = "never-up" THEN "rejected" ELSE era
    /\ UNCHANGED <<up, published, now, config, req, resp, nfetch, first, view, verified, seen>>

\* jwt.decode with the resolved key.
Decode(s) ==
    /\ pc[s] = "decode"
    /\ LET d == JwtDecode(req[s].tok, req[s].tok.kid, now)
       IN  IF d.ok
           THEN /\ pc' = [pc EXCEPT ![s] = "Verified"]
                /\ out' = [out EXCEPT ![s] = Response(0, FALSE, "none", "none", <<>>, Payload(req[s].tok))]
                /\ verified' = [verified EXCEPT ![s] = TRUE]
           ELSE Raise(s, d.exc) /\ verified' = verified
    /\ UNCHANGED <<env, cache, config, req, refresh, resp, nfetch, first, view, seen>>

\* Routes that depend on verify_token alone hand the claims to the handler.
Admit(s) ==
    /\ pc[s] = "Verified" /\ ~HasScope(req[s].ep)
    /\ pc' = [pc EXCEPT ![s] = "Admitted"]
    /\ out' = [out EXCEPT ![s].status = SuccessStatus(req[s].ep)]
    /\ seen' = Record(s)
    /\ UNCHANGED <<env, cache, config, req, local>>

\* Routes that depend on require_scope(...) run scope_checker on the claims.
CheckScope(s) ==
    /\ pc[s] = "Verified" /\ HasScope(req[s].ep)
    /\ LET required_scope == RequiredScope(req[s].ep)
           c == ScopeChecker(required_scope, out[s].claims)
       IN  CASE c = "granted" -> pc' = [pc EXCEPT ![s] = "Authorized"] /\ out' = out
             [] c = "denied" ->
                    /\ pc' = [pc EXCEPT ![s] = "Rejected"]
                    /\ out' = [out EXCEPT ![s] =
                                 Response(HTTP_403_FORBIDDEN, FALSE, "Insufficient scope. Required",
                                          "none", required_scope, NoClaims)]
             [] OTHER ->
                    /\ pc' = [pc EXCEPT ![s] = "Error"]
                    /\ out' = [out EXCEPT ![s] =
                                 Response(HTTP_500_INTERNAL_SERVER_ERROR, FALSE, "Internal Server Error",
                                          c, <<>>, NoClaims)]
    /\ seen' = Record(s)
    /\ UNCHANGED <<env, cache, config, req, local>>

\* The handler of a scope-protected route runs.
Handler(s) ==
    /\ pc[s] = "Authorized"
    /\ pc' = [pc EXCEPT ![s] = "Admitted"]
    /\ out' = [out EXCEPT ![s].status = SuccessStatus(req[s].ep)]
    /\ UNCHANGED <<env, cache, config, req, local, seen>>

\* The response is sent; nothing of the request is kept.
Complete(s) ==
    /\ pc[s] \in {"Admitted", "Rejected", "Error"}
    /\ pc' = [pc EXCEPT ![s] = "idle"]
    /\ req' = [req EXCEPT ![s] = NoRequest]
    /\ refresh' = [refresh EXCEPT ![s] = FALSE]
    /\ resp' = [resp EXCEPT ![s] = NoFetch]
    /\ nfetch' = [nfetch EXCEPT ![s] = 0]
    /\ first' = [first EXCEPT ![s] = "none"]
    /\ view' = [view EXCEPT ![s] = "none"]
    /\ verified' = [verified EXCEPT ![s] = FALSE]
    /\ out' = [out EXCEPT ![s] = NoResponse]
    /\ UNCHANGED <<env, cache, config, seen>>

Next ==
    \/ Tick
    \/ ServerDown
    \/ ServerUp
    \/ Rotate
    \/ LifespanElapses
    \/ \E s \in Slots : Arrive(s)
    \/ \E s \in Slots : Security(s)
    \/ \E s \in Slots : GetSigningKey(s)
    \/ \E s \in Slots : Fetch(s)
    \/ \E s \in Slots : Put(s)
    \/ \E s \in Slots : Decode(s)
    \/ \E s \in Slots : Admit(s)
    \/ \E s \in Slots : CheckScope(s)
    \/ \E s \in Slots : Handler(s)
    \/ \E s \in Slots : Complete(s)

Spec == Init /\ [][Next]_vars

\* ---------------------------------------------------------------- vocabulary of the properties
Terminal(s) == pc[s] \in {"Admitted", "Rejected", "Error"}

Bearer(s) == req[s].hdr = "bearer"

\* The failure class of the response of slot s.
Failure(s) == Classify(out[s].exc)

Unauthorized(s) ==
    pc[s] = "Rejected" /\ out[s].status = HTTP_401_UNAUTHORIZED /\ out[s].challenge

\* w (which holds no whitespace) is one of the whitespace-separated names of string str.
IsName(w, str) ==
    /\ w # <<>>
    /\ \E i \in 1..Len(str) :
          /\ i + Len(w) - 1 <= Len(str)
          /\ SubSeq(str, i, i + Len(w) - 1) = w
          /\ (i = 1 \/ IsSpace(str[i - 1]))
          /\ (i + Len(w) - 1 = Len(str) \/ IsSpace(str[i + Len(w)]))

\* The scope claim sc names w among its granted scopes.
Grants(sc, w) == sc.ty = "str" /\ IsName(w, sc.v)

\* The key set the request's key was looked up in last, and whether kid was in it.
KeyResolved(s) ==
    \/ first[s] = "hit-found"
    \/ nfetch[s] > 0 /\ pc[s] # "put" /\ resp[s].ok /\ req[s].tok.kid \in resp[s].data

\* A well-formed RS256 token with a good signature and no nbf / exp.
Timeless(t) == t.wf /\ t.alg = "RS256" /\ t.sig = "good" /\ t.nbf = {} /\ t.exp = {}

\* ---------------------------------------------------------------- C1
\* C1: a request is Admitted if and only if verify_token returned a claim set for
\* its bearer token and, where the route requires a scope, the claims grant it;
\* a route with no required scope admits every verified token whatever its scope
\* claim; and Admitted is entered only from Verified (or from Authorized, which is
\* entered only from Verified).
C1_AdmittedIff ==
    \A s \in Slots :
        /\ pc[s] = "Admitted" =>
              /\ Bearer(s) /\ verified[s]
              /\ out[s].claims = Payload(req[s].tok)
              /\ RequiredScope(req[s].ep) # <<>> =>
                     Grants(out[s].claims.scope, RequiredScope(req[s].ep))
        /\ (Terminal(s) /\ verified[s]
              /\ (RequiredScope(req[s].ep) # <<>> =>
                     Grants(req[s].tok.scope, RequiredScope(req[s].ep))))
              => pc[s] = "Admitted"
        /\ pc[s] \in {"Verified", "Authorized"} => verified[s]

C1_ThroughVerified ==
    \A s \in Slots :
        /\ (pc'[s] = "Admitted" /\ pc[s] # "Admitted") => pc[s] \in {"Verified", "Authorized"}
        /\ (pc'[s] = "Authorized" /\ pc[s] # "Authorized") => pc[s] = "Verified"
        /\ (pc'[s] = "Verified" /\ pc[s] # "Verified") => pc[s] = "decode"

C3_OneRefetch ==
    \A s \in Slots :
        LET t == req[s].tok
            refetches == nfetch[s] - (IF first[s] = "miss" /\ nfetch[s] > 0 THEN 1 ELSE 0)
            settled == pc[s] \notin {"fetch", "put"}
        IN  /\ refetches <= 1
            /\ first[s] \in {"hit-found", "hit-empty"} => nfetch[s] = 0
            /\ (first[s] = "hit-absent" /\ settled) => (refresh[s] /\ nfetch[s] = 1)
            /\ (refresh[s] /\ settled) =>
                  /\ refetches = 1
                  /\ (resp[s].ok /\ t.kid \in resp[s].data) =>
                        /\ Terminal(s) => Failure(s) \notin {"UnknownKey", "KeySourceUnavailable"}
                        /\ Timeless(t) => (pc[s] = "decode" \/ verified[s])
                  /\ (resp[s].ok /\ resp[s].data # {} /\ t.kid \notin resp[s].data) =>
                        (Unauthorized(s) /\ Failure(s) = "UnknownKey")

\* Witness: kid was absent from the cached set, one re-fetch found it, and the token verified.
C3_Witness ==
    \E s \in Slots : first[s] = "hit-absent" /\ nfetch[s] = 1 /\ verified[s]

\* ---------------------------------------------------------------- C4
\* C4: scope_checker grants exactly when the required scope is, character for
\* character, one of the whitespace-separated names of the scope claim; an absent,
\* null or empty scope claim grants nothing.
C4_ExactScope ==
    \A s \in Slots :
        LET required == RequiredScope(req[s].ep)
            sc == req[s].tok.scope
        IN  (verified[s] /\ required # <<>> /\ pc[s] # "Verified") =>
                /\ pc[s] \in {"Authorized", "Admitted"} <=> Grants(sc, required)
                /\ (sc.ty \in {"absent", "null"} \/ sc = ScopeStr(<<>>)) =>
                      (pc[s] = "Rejected" /\ out[s].status = HTTP_403_FORBIDDEN)
                /\ (sc.ty = "str" /\ ~Grants(sc, required)) =>
                      (pc[s] = "Rejected" /\ out[s].status = HTTP_403_FORBIDDEN)

\* Witness: scope "Read Write" denied the required scope "read".
C4_Witness ==
    \E s \in Slots :
        /\ pc[s] = "Rejected" /\ out[s].status = HTTP_403_FORBIDDEN
        /\ req[s].tok.scope = ScopeStr(Read \o SP \o Write)
        /\ RequiredScope(req[s].ep) = read

\* ---------------------------------------------------------------- C5
\* exp is in the past at instant n (jwt.decode raises when exp <= now).
Expired(t, n) == \E x \in t.exp : x <= n

\* C5 as stated: whenever jwt.decode rejects a token whose exp is in the past, the
\* failure is Expired, whether the signature is valid or not.
C5_Original ==
    [][\A s \in Slots :
          (pc[s] = "decode" /\ pc'[s] # "decode" /\ Expired(req[s].tok, now)) =>
              (pc'[s] = "Rejected" /\ Classify(out'[s].exc) = "Expired")]_vars

\* C5 amended: jwt.decode never accepts a token whose exp is in the past; the
\* signature is checked before exp, so the failure is Expired when the RS256
\* signature is valid and BadSignature when it is not.
C5_ExpiredAfterSignature ==
    [][\A s \in Slots :
          (pc[s] = "decode" /\ pc'[s] # "decode" /\ Expired(req[s].tok, now)) =>
              /\ pc'[s] = "Rejected"
              /\ out'[s].status = HTTP_401_UNAUTHORIZED /\ out'[s].challenge
              /\ ~verified'[s]
              /\ (req[s].tok.alg = "RS256" /\ req[s].tok.sig = "good" /\ req[s].tok.nbf = {})
                    => Classify(out'[s].exc) = "Expired"
              /\ (req[s].tok.alg = "RS256" /\ req[s].tok.sig # "good")
                    => Classify(out'[s].exc) = "BadSignature"]_vars

\* Witness: a token rejected as Expired.
C5_Witness ==
    \E s \in Slots : pc[s] = "Rejected" /\ Failure(s) = "Expired" /\ req[s].tok.sig = "good"

\* ---------------------------------------------------------------- C6
FailureClasses ==
    {"Malformed", "UnsupportedAlgorithm", "UnknownKey", "BadSignature", "Expired",
     "NotYetValid", "KeySourceUnavailable"}

\* C6: every request whose bearer token verify_token did not accept ends Rejected
\* with status 401 and WWW-Authenticate: Bearer, for one of the seven failure
\* classes; it is never 403, admitted, or an unhandled error.
C6_FailureIs401 ==
    \A s \in Slots :
        /\ (Bearer(s) /\ Terminal(s) /\ ~verified[s]) =>
              (Unauthorized(s) /\ Failure(s) \in FailureClasses)
        /\ (Bearer(s) /\ ~verified[s]) => pc[s] \notin {"Admitted", "Authorized", "Error"}
        /\ out[s].exc \in InvalidTokenErrors \cup OtherErrors => Unauthorized(s)

\* Witness: a failed JWKS fetch (caught by the second except clause) answered 401.
C6_Witness ==
    \E s \in Slots : Unauthorized(s) /\ Failure(s) = "KeySourceUnavailable" /\ ~resp[s].ok

\* ---------------------------------------------------------------- C7
\* C7: a request with no Authorization header, or with another scheme, is rejected
\* with 401 and WWW-Authenticate: Bearer, and reaches neither verify_token's body
\* nor the handler.
C7_Original ==
    \A s \in Slots :
        (req[s] # NoRequest /\ ~Bearer(s)) =>
            /\ pc[s] \in {"Start", "Rejected"} /\ nfetch[s] = 0 /\ ~verified[s]
            /\ pc[s] = "Rejected" => Unauthorized(s)

\* ---------------------------------------------------------------- C8
\* C8: a 403 is answered only to a request whose token was verified and whose
\* scopes lack the route's required scope, and it names that scope; missing or
\* invalid credentials are never answered 403.
C8_Original ==
    \A s \in Slots :
        /\ (pc[s] = "Rejected" /\ out[s].status = HTTP_403_FORBIDDEN) =>
              /\ verified[s]
              /\ RequiredScope(req[s].ep) # <<>>
              /\ ~Grants(req[s].tok.scope, RequiredScope(req[s].ep))
              /\ out[s].scope = RequiredScope(req[s].ep)
        /\ (Terminal(s) /\ ~verified[s]) => out[s].status # HTTP_403_FORBIDDEN

\* ---------------------------------------------------------------- C9
\* C9: while the JWKS endpoint has never been reachable, nothing is cached, every
\* request with a token ends 401 (a well-formed one after a fetch of its own that
\* failed: the fetch is retried per request) and none ends in an unhandled error;
\* and a request whose own fetch succeeds and returns its key is admitted.
C9_RecoverWithoutRestart ==
    /\ era \in {"never-up", "rejected"} =>
          /\ ~up /\ cache = NoCache
          /\ \A s \in Slots :
                /\ ~verified[s] /\ pc[s] # "Error"
                /\ (Bearer(s) /\ Terminal(s)) => Unauthorized(s)
                /\ (Bearer(s) /\ Terminal(s) /\ req[s].tok.wf) =>
                      (nfetch[s] = 1 /\ Failure(s) = "KeySourceUnavailable")
    /\ \A s \in Slots :
          (Terminal(s) /\ Bearer(s) /\ Timeless(req[s].tok) /\ first[s] = "miss"
             /\ resp[s].ok /\ req[s].tok.kid \in resp[s].data
             /\ RequiredScope(req[s].ep) = <<>>) => pc[s] = "Admitted"

\* Witness: after a request was rejected for a failed fetch, the server came up and
\* a request that fetched the keys itself was admitted.
C9_Witness ==
    /\ era = "recovered"
    /\ \E s \in Slots : pc[s] = "Admitted" /\ first[s] = "miss" /\ nfetch[s] = 1

\* ---------------------------------------------------------------- C10
\* The requests of the idempotence check: three tokens that can verify (one under a
\* key that rotates in and out, one that expires), on routes with and without a
\* required scope, and requests that fail.
IdemRequests ==
    { Request("GET /api/protected", "bearer",
              Token(TRUE, "RS256", "k1", "good", {}, {}, ScopeStr(read \o SP \o write))),
      Request("GET /api/data", "bearer",
              Token(TRUE, "RS256", "k2", "good", {}, {}, ScopeStr(read \o SP \o write))),
      Request("GET /api/protected", "bearer",
              Token(TRUE, "RS256", "k1", "good", {}, {TokenInstant}, ScopeStr(read \o SP \o write))),
      Request("GET /api/protected", "absent", NoToken) }

InitIdem ==
    /\ up \in BOOLEAN
    /\ era = IF up THEN "up" ELSE "never-up"
    /\ published \in SUBSET Kids
    /\ now = 0
    /\ cache = NoCache
    /\ pool = IdemRequests
    /\ slots = {1}
    /\ track = TRUE
    /\ pc = [s \in Slots |-> "idle"]
    /\ req = [s \in Slots |-> NoRequest]
    /\ refresh = [s \in Slots |-> FALSE]
    /\ resp = [s \in Slots |-> NoFetch]
    /\ nfetch = [s \in Slots |-> 0]
    /\ first = [s \in Slots |-> "none"]
    /\ view = [s \in Slots |-> "none"]
    /\ verified = [s \in Slots |-> FALSE]
    /\ out = [s \in Slots |-> NoResponse]
    /\ seen = {}

SpecIdem == InitIdem /\ [][Next]_vars

ConcRequests ==
    { Request("GET /api/protected", "bearer",
              Token(TRUE, "RS256", "k2", "good", {}, {}, ScopeStr(read \o SP \o write))),
      Request("GET /api/data", "bearer",
              Token(TRUE, "RS256", "k1", "good", {}, {}, ScopeStr(read \o SP \o write))) }

InitConc ==
    /\ up \in BOOLEAN
    /\ era = IF up THEN "up" ELSE "never-up"
    /\ published \in SUBSET Kids
    /\ now = 0
    /\ cache = NoCache
    /\ pool = ConcRequests
    /\ slots = Slots
    /\ track = FALSE
    /\ pc = [s \in Slots |-> "idle"]
    /\ req = [s \in Slots |-> NoRequest]
    /\ refresh = [s \in Slots |-> FALSE]
    /\ resp = [s \in Slots |-> NoFetch]
    /\ nfetch = [s \in Slots |-> 0]
    /\ first = [s \in Slots |-> "none"]
    /\ view = [s \in Slots |-> "none"]
    /\ verified = [s \in Slots |-> FALSE]
    /\ out = [s \in Slots |-> NoResponse]
    /\ seen = {}

\* The steps of two concurrent requests.  The tokens of ConcRequests carry no time
\* claims, so the clock is left out; the published key set is any subset of Kids
\* (InitConc) and the server goes down and comes back while the two requests run.
NextConc ==
    \/ ServerDown
    \/ ServerUp
    \/ LifespanElapses
    \/ \E s \in Slots : Arrive(s)
    \/ \E s \in Slots : Security(s)
    \/ \E s \in Slots : GetSigningKey(s)
    \/ \E s \in Slots : Fetch(s)
    \/ \E s \in Slots : Put(s)
    \/ \E s \in Slots : Decode(s)
    \/ \E s \in Slots : Admit(s)
    \/ \E s \in Slots : CheckScope(s)
    \/ \E s \in Slots : Handler(s)
    \/ \E s \in Slots : Complete(s)

SpecConc == InitConc /\ [][NextConc]_vars

\* C11: a request that reads the key cache while another request's re-fetch is
\* under way sees a cached key set (the one from before the re-fetch or the new
\* one), never an empty cache.
C11_Original == \A s \in Slots : view[s] # "empty"

\* ---------------------------------------------------------------- C12
\* C12: every request ends Admitted, Rejected with 401 or Rejected with 403; none
\* ends as an unhandled error, whatever the JWKS fetch did and whatever the type of
\* the verified claim set's scope claim.
C12_Original ==
    \A s \in Slots :
        /\ pc[s] # "Error"
        /\ pc[s] = "Rejected" =>
              out[s].status \in {HTTP_401_UNAUTHORIZED, HTTP_403_FORBIDDEN}
        /\ pc[s] = "Admitted" => out[s].status = SuccessStatus(req[s].ep)

\* ---------------------------------------------------------------- C13
\* C13: a JWKS fetch that fails leaves the cached key set as it was; only a
\* successful fetch replaces it.
C13_Original ==
    [][\A s \in Slots :
          (pc[s] = "put" /\ pc'[s] # "put" /\ ~resp[s].ok) => cache' = cache]_vars

====
